---- MODULE Spec2Model ----
(***************************************************************************)
(* Model of the Azure DevOps downloader of api/git/azure.go: the two cache *)
(* maps and their mutex, the operations download, latestCommitID,          *)
(* listRemote, listTree and removeCache run by concurrent callers, and the *)
(* remote REST service they call.                                          *)
(*                                                                         *)
(* A Go string is a sequence of tokens (each token stands for a substring  *)
(* that the code never looks into); "" is <<>>.  A Go slice is a sequence; *)
(* a nil slice is <<>>.  A Go map is a function whose DOMAIN is the set of *)
(* keys present.                                                           *)
(***************************************************************************)
EXTENDS Integers, Sequences, FiniteSets, TLC

VARIABLES
    cacheEnabled,   \* azureDownloader.cacheEnabled
    mu,             \* azureDownloader.mu: "free" or the thread holding it
    repoRefCache,   \* azureDownloader.repoRefCache: repository URL -> ref names
    repoTreeCache,  \* azureDownloader.repoTreeCache: cache key -> all paths
    th,             \* per calling thread: position, arguments, locals, result
    ver,            \* the remote: number of the snapshot it currently serves
    fetched,        \* history: <<url, ref>> -> the full tree that the remote
                    \* served to the last listTree(url, ref) that stored its
                    \* result, until a removeCache(url, ref)
    ncalls          \* history: number of calls made so far

vars == <<cacheEnabled, mu, repoRefCache, repoTreeCache, th, ver, fetched,
          ncalls>>

----------------------------------------------------------------------------
(* Bounds *)

\* number of calls made on the downloader in one run
MaxCalls == 3

\* number of distinct snapshots the remote can serve (numbered 0..NumVersions-1)
NumVersions == 2

\* number of path segments of the URLs given to parseUrl (0..MaxSegments)
MaxSegments == 5

\* number of tokens of the names given to formatReferenceName (0..MaxNameLen)
MaxNameLen == 3

Versions == 0 .. (NumVersions - 1)

Threads == {"t1", "t2"}

----------------------------------------------------------------------------
(* Strings *)

HasPrefix(s, prefix) ==
    Len(prefix) <= Len(s) /\ SubSeq(s, 1, Len(prefix)) = prefix

HasSuffix(s, suffix) ==
    Len(suffix) <= Len(s) /\ SubSeq(s, Len(s) - Len(suffix) + 1, Len(s)) = suffix

TrimPrefix(s, prefix) ==
    IF HasPrefix(s, prefix) THEN SubSeq(s, Len(prefix) + 1, Len(s)) ELSE s

TrimSuffix(s, suffix) ==
    IF HasSuffix(s, suffix) THEN SubSeq(s, 1, Len(s) - Len(suffix)) ELSE s

Contains(s, tok) == \E i \in 1..Len(s) : s[i] = tok

IndexOf(s, tok) == CHOOSE i \in 1..Len(s) : s[i] = tok /\ \A j \in 1..(i-1) : s[j] # tok

\* strings.Split(s, sep) for a one-token separator
RECURSIVE Split(_, _)
Split(s, sep) ==
    IF Contains(s, sep)
    THEN <<SubSeq(s, 1, IndexOf(s, sep) - 1)>>
             \o Split(SubSeq(s, IndexOf(s, sep) + 1, Len(s)), sep)
    ELSE <<s>>

----------------------------------------------------------------------------
(* URL parsing *)

azureDevOpsHost == <<"dev.azure.com">>
visualStudioHostSuffix == <<".visualstudio.com">>

\* net/url.Parse of an http(s) URL: scheme token, authority up to the first
\* "/", optional userinfo before "@", path from the first "/" on.
UrlParse(rawUrl) ==
    LET rest == SubSeq(rawUrl, 2, Len(rawUrl))
        authority == IF Contains(rest, "/")
                     THEN SubSeq(rest, 1, IndexOf(rest, "/") - 1) ELSE rest
        path == IF Contains(rest, "/")
                THEN SubSeq(rest, IndexOf(rest, "/"), Len(rest)) ELSE <<>>
        hasUser == Contains(authority, "@")
        userinfo == IF hasUser THEN SubSeq(authority, 1, IndexOf(authority, "@") - 1)
                    ELSE <<>>
        host == IF hasUser
                THEN SubSeq(authority, IndexOf(authority, "@") + 1, Len(authority))
                ELSE authority
    IN  [Host |-> host,
         Path |-> path,
         Username |-> IF Contains(userinfo, ":")
                      THEN SubSeq(userinfo, 1, IndexOf(userinfo, ":") - 1)
                      ELSE userinfo,
         Password |-> IF Contains(userinfo, ":")
                      THEN SubSeq(userinfo, IndexOf(userinfo, ":") + 1, Len(userinfo))
                      ELSE <<>>]

noOptions ==
    [ok |-> FALSE, organisation |-> <<>>, project |-> <<>>, repository |-> <<>>,
     username |-> <<>>, password |-> <<>>]

parseSshUrl(rawUrl) ==
    LET path == Split(rawUrl, "/")
    IN  IF Len(path) # 4
        THEN noOptions
        ELSE [ok |-> TRUE, organisation |-> path[2], project |-> path[3],
              repository |-> path[4], username |-> <<>>, password |-> <<>>]

parseHttpUrl(rawUrl) ==
    LET u == UrlParse(rawUrl)
        path == Split(u.Path, "/")
    IN  IF u.Host = azureDevOpsHost
        THEN IF Len(path) # 5
             THEN noOptions
             ELSE [ok |-> TRUE, organisation |-> path[2], project |-> path[3],
                   repository |-> path[5],
                   username |-> u.Username, password |-> u.Password]
        ELSE IF HasSuffix(u.Host, visualStudioHostSuffix)
        THEN IF Len(path) # 4
             THEN noOptions
             ELSE [ok |-> TRUE,
                   organisation |-> TrimSuffix(u.Host, visualStudioHostSuffix),
                   project |-> path[2], repository |-> path[4],
                   username |-> u.Username, password |-> u.Password]
        ELSE noOptions

parseUrl(rawUrl) ==
    IF HasPrefix(rawUrl, <<"https://">>) \/ HasPrefix(rawUrl, <<"http://">>)
    THEN parseHttpUrl(rawUrl)
    ELSE IF HasPrefix(rawUrl, <<"git@ssh">>)
    THEN parseSshUrl(rawUrl)
    ELSE IF HasPrefix(rawUrl, <<"ssh://">>)
    THEN parseSshUrl(SubSeq(rawUrl, 2, Len(rawUrl)))
    ELSE noOptions

----------------------------------------------------------------------------
(* Reference names, cache keys, extension filter *)

branchPrefix == <<"refs/", "heads/">>
tagPrefix == <<"refs/", "tags/">>

formatReferenceName_branchOnly(name) ==
    IF HasPrefix(name, branchPrefix) THEN TrimPrefix(name, branchPrefix)
    ELSE name

formatReferenceName(name) ==
    IF HasPrefix(name, branchPrefix) THEN TrimPrefix(name, branchPrefix)
    ELSE IF HasPrefix(name, tagPrefix) THEN TrimPrefix(name, tagPrefix)
    ELSE name

getVersionType(name) ==
    IF HasPrefix(name, branchPrefix) THEN "branch"
    ELSE IF HasPrefix(name, tagPrefix) THEN "tag"
    ELSE "commit"

\* composite key of (repository URL, reference name)
generateCacheKey(repositoryUrl, referenceName) == <<repositoryUrl, referenceName>>

\* no extensions: every path matches; else case-sensitive suffix match
matchExtensions(path, extensions) ==
    \/ Len(extensions) = 0
    \/ \E i \in 1..Len(extensions) : HasSuffix(path, extensions[i])

\* the loop "for path in paths: if matchExtensions(path, exts): append"
RECURSIVE filterPaths(_, _)
filterPaths(paths, extensions) ==
    IF Len(paths) = 0 THEN <<>>
    ELSE (IF matchExtensions(Head(paths), extensions) THEN <<Head(paths)>> ELSE <<>>)
             \o filterPaths(Tail(paths), extensions)

----------------------------------------------------------------------------
(* HTTP statuses and error values.  An error is <<kind, status>>; wrapping *)
(* with a message (errors.Wrap, errors.WithMessage) keeps the cause.       *)

StatusOK == 200
StatusNonAuthoritativeInfo == 203
StatusUnauthorized == 401
StatusNotFound == 404

Statuses == {StatusOK, StatusNonAuthoritativeInfo, StatusUnauthorized,
             StatusNotFound, 500}

nil == <<"nil", 0>>
ErrIncorrectRepositoryURL == <<"ErrIncorrectRepositoryURL", 0>>
ErrAuthenticationFailure == <<"ErrAuthenticationFailure", 0>>
ErrRefNotFound == <<"ErrRefNotFound", 0>>
errParseUrl == <<"failed to parse url", 0>>
errTempFile == <<"failed to create temp file", 0>>
errHttpRequest == <<"failed to make an HTTP request", 0>>
errRefsDecode == <<"could not parse Azure refs response", 0>>
errItemsDecode == <<"could not parse Azure items response", 0>>
errTreeDecode == <<"could not parse Azure tree response", 0>>
errNoCommit == <<"failed to get latest commitID in the repository", 0>>
errSaveZip == <<"failed to save HTTP response to a file", 0>>
errUnzip == <<"failed to unzip file", 0>>

\* listRemote: the error for a refs response whose status is not 200
refsStatusError_203generic(status) ==
    IF status = StatusNotFound THEN ErrIncorrectRepositoryURL
    ELSE IF status = StatusUnauthorized THEN ErrAuthenticationFailure
    ELSE <<"failed to list refs url with a status", status>>

refsStatusError(status) ==
    IF status = StatusNotFound THEN ErrIncorrectRepositoryURL
    ELSE IF status = StatusUnauthorized \/ status = StatusNonAuthoritativeInfo
    THEN ErrAuthenticationFailure
    ELSE <<"failed to list refs url with a status", status>>

rootItemStatusError(status) ==
    <<"failed to get repository root item with a status", status>>

treeStatusError(status) == <<"failed to list tree url with a status", status>>

zipStatusError(status) == <<"failed to download zip with a status", status>>

----------------------------------------------------------------------------
(* The remote service.  Snapshot v of a repository has the branch main, a   *)
(* branch named after the repository, the tag v1 in the even snapshots     *)
(* only, and one tree per reference.                                       *)

refHEAD == <<"HEAD">>
refMain == branchPrefix \o <<"main">>
refTag == tagPrefix \o <<"v1">>

\* body of the refs response: the Value array of azureRef
RemoteRefs(config, v) ==
    << [Name |-> refHEAD, ObjectID |-> <<"head">>],
       [Name |-> refMain, ObjectID |-> <<"main", ToString(v)>>],
       [Name |-> branchPrefix \o config.repository,
        ObjectID |-> config.repository \o <<ToString(v)>>] >>
    \o (IF v % 2 = 0 THEN << [Name |-> refTag, ObjectID |-> <<"v1">>] >> ELSE <<>>)

RemoteHasRef(config, referenceName, v) ==
    \E i \in 1..Len(RemoteRefs(config, v)) :
        RemoteRefs(config, v)[i].Name = referenceName

\* object id of the root tree of a reference in snapshot v
RemoteRootObject(config, referenceName, v) ==
    <<"tree">> \o config.repository \o formatReferenceName(referenceName)
        \o <<ToString(v)>>

\* body of the root-item response: the Value array of azureItem
RemoteRootItems(config, referenceName, v) ==
    << [ObjectID |-> RemoteRootObject(config, referenceName, v),
        CommitId |-> <<"commit", ToString(v)>>,
        Path |-> <<"/">>] >>

\* body of the tree response for a root object: the relative paths
RemoteTree(rootObjectHash) ==
    << <<"docker-compose", ".yml">>,
       SubSeq(rootObjectHash, 2, Len(rootObjectHash)) \o <<".txt">> >>
    \o (IF rootObjectHash[Len(rootObjectHash)] = "0"
        THEN <<>> ELSE << <<"stack", ".yml">> >>)

----------------------------------------------------------------------------
(* Responses.  status 0: client.Do returned an error; body <<>>: the body  *)
(* could not be decoded (or copied); body <<b>>: it decoded to b.          *)

Responses(statuses, bodies) ==
    {[status |-> 0, body |-> <<>>]}
    \cup {[status |-> s, body |-> <<>>] : s \in statuses \ {StatusOK}}
    \cup {[status |-> StatusOK, body |-> b] : b \in bodies \cup {<<>>}}

RefsResponses(config, v, statuses) ==
    Responses(statuses, { <<RemoteRefs(config, v)>> })

RootItemResponses(config, referenceName, v, statuses) ==
    IF RemoteHasRef(config, referenceName, v)
    THEN Responses(statuses,
            { <<RemoteRootItems(config, referenceName, v)>>,
              << <<>> >>,
              << <<[RemoteRootItems(config, referenceName, v)[1]
                       EXCEPT !.CommitId = <<>>]>> >> })
    ELSE Responses(statuses, { << <<>> >> })

TreeResponses(rootObjectHash, statuses) ==
    Responses(statuses, { <<RemoteTree(rootObjectHash)>> })

\* body <<"zip">>: an archive that extracts; <<"corrupt">>: UnzipFile fails
ZipResponses(statuses) == Responses(statuses, { <<"zip">>, <<"corrupt">> })

----------------------------------------------------------------------------
(* Maps *)

emptyMap == [k \in {} |-> <<>>]

mapSet(m, key, value) == [k \in DOMAIN m \cup {key} |-> IF k = key THEN value ELSE m[k]]

mapDelete(m, key) == [k \in DOMAIN m \ {key} |-> m[k]]

\* a.cacheEnabled guards both stores
shouldCache_always(enabled) == TRUE

shouldCache(enabled) == enabled

\* a.repoRefCache[options.repositoryUrl] = ret
storeRefs_appended(cache, repositoryUrl, ret) ==
    mapSet(cache, repositoryUrl,
           IF repositoryUrl \in DOMAIN cache THEN cache[repositoryUrl] \o ret
           ELSE ret)

storeRefs(cache, repositoryUrl, ret) == mapSet(cache, repositoryUrl, ret)

\* a.repoTreeCache[repoKey] = allPaths
storeTree_filtered(cache, repoKey, allPaths, filteredRet) ==
    mapSet(cache, repoKey, filteredRet)

storeTree(cache, repoKey, allPaths, filteredRet) == mapSet(cache, repoKey, allPaths)

\* delete(a.repoRefCache, opt.repositoryUrl)
removeRefs_all(cache, repositoryUrl) == emptyMap

removeRefs(cache, repositoryUrl) == mapDelete(cache, repositoryUrl)

\* delete(a.repoTreeCache, generateCacheKey(opt.repositoryUrl, opt.referenceName))
removeTree_kept(cache, repositoryUrl, referenceName) == cache

removeTree(cache, repositoryUrl, referenceName) ==
    mapDelete(cache, generateCacheKey(repositoryUrl, referenceName))

----------------------------------------------------------------------------
(* A calling thread.  pc is where it stands:                               *)
(*   idle                       no call made yet                           *)
(*   refs, rootItem, tree, download   that remote call is in flight        *)
(*   readTree, readRef          listTree is about to read that cache map   *)
(*   lrLock, ltLock, rcLock     waiting for a.mu                           *)
(*   lrStore, ltStore           holds a.mu, the map assignment in progress *)
(*   rcDelRef, rcDelTree        holds a.mu, that delete in progress        *)
(*   done                       the call has returned (err, val)           *)
(*   crashed                    the runtime has aborted the process        *)
(* A thread keeps the result of a call until its next call.  The history   *)
(* fields issued, wrote, status, refs, items and afterRemove record what   *)
(* the call did and saw.                                                   *)

noCreds == [username |-> <<>>, password |-> <<>>]

\* the request's basic-auth setting: <<>> when SetBasicAuth is not called
basicAuth_embeddedFirst(options, config) ==
    IF config.username # <<>> \/ config.password # <<>>
    THEN <<[username |-> config.username, password |-> config.password]>>
    ELSE IF options.username # <<>> \/ options.password # <<>>
    THEN <<[username |-> options.username, password |-> options.password]>>
    ELSE <<>>

basicAuth(options, config) ==
    IF options.username # <<>> \/ options.password # <<>>
    THEN <<[username |-> options.username, password |-> options.password]>>
    ELSE IF config.username # <<>> \/ config.password # <<>>
    THEN <<[username |-> config.username, password |-> config.password]>>
    ELSE <<>>

idleThread ==
    [pc |-> "idle", op |-> "none",
     repositoryUrl |-> <<>>, referenceName |-> <<>>, extensions |-> <<>>,
     username |-> <<>>, password |-> <<>>,   \* the call-scoped credentials
     refs |-> <<>>,          \* <<list>> once listTree has resolved refs
     items |-> <<>>,         \* <<Value>> once the root-item body is decoded
     rootObject |-> <<>>,    \* rootItem.ObjectID
     ret |-> <<>>,           \* listRemote's ret
     allPaths |-> <<>>,
     zipFile |-> FALSE,      \* the temporary file of this call exists
     issued |-> <<>>,        \* remote calls issued by this call, in order
     auth |-> <<>>,          \* the basic-auth setting of each of them
     wrote |-> {},           \* cache maps this call has changed
     status |-> 0,           \* status of the last response received
     afterRemove |-> FALSE,  \* the caller's previous call was removeCache
                             \* with the arguments of this listTree
     invalidated |-> "none", \* the cache map for which this call was holding
                             \* a response, not stored yet, when a removeCache
                             \* of its repository (and reference) completed
     err |-> nil, val |-> <<>>]

\* a return: the locals are gone, the result and the history fields stay
fail(rec, e) ==
    [rec EXCEPT !.pc = "done", !.err = e, !.val = <<>>,
                !.rootObject = <<>>, !.ret = <<>>, !.allPaths = <<>>]

return(rec, v) ==
    [rec EXCEPT !.pc = "done", !.err = nil, !.val = v,
                !.rootObject = <<>>, !.ret = <<>>, !.allPaths = <<>>]

\* the request is built (with its basic-auth setting) and client.Do is called
issue_twice(rec, call) ==
    [rec EXCEPT !.pc = call,
                !.issued = Append(Append(@, call), call),
                !.auth = Append(@, basicAuth(rec, parseUrl(rec.repositoryUrl)))]

issue(rec, call) ==
    [rec EXCEPT !.pc = call,
                !.issued = Append(@, call),
                !.auth = Append(@, basicAuth(rec, parseUrl(rec.repositoryUrl)))]

\* getRootItem up to client.Do
getRootItemCall(rec) ==
    IF parseUrl(rec.repositoryUrl).ok THEN issue(rec, "rootItem")
    ELSE fail(rec, errParseUrl)

\* len(items.Value) == 0 || items.Value[0].CommitId == ""
rootItemIncomplete_lenOnly(Value) == Len(Value) = 0

rootItemIncomplete(Value) == Len(Value) = 0 \/ Value[1].CommitId = <<>>

\* listTree from the return of getRootItem up to client.Do of the tree call
treeCall_fixedObject(rec, rootItem) ==
    IF parseUrl(rec.repositoryUrl).ok
    THEN issue([rec EXCEPT !.rootObject = <<"tree", "repoA", "main", "0">>], "tree")
    ELSE fail(rec, errParseUrl)

treeCall(rec, rootItem) ==
    IF parseUrl(rec.repositoryUrl).ok
    THEN issue([rec EXCEPT !.rootObject = rootItem.ObjectID], "tree")
    ELSE fail(rec, errParseUrl)

\* the callers of getRootItem on its success
afterGetRootItem(rec, rootItem) ==
    IF rec.op = "latestCommitID" THEN return(rec, rootItem.CommitId)
    ELSE treeCall(rec, rootItem)

\* the loop that looks for options.referenceName in refs
matchedRef_always(refs, referenceName) == TRUE

matchedRef(refs, referenceName) == \E i \in 1..Len(refs) : refs[i] = referenceName

\* listTree from the resolved refs up to the root-item call
checkRef(rec, refs) ==
    IF matchedRef(refs, rec.referenceName)
    THEN getRootItemCall([rec EXCEPT !.refs = <<refs>>])
    ELSE fail([rec EXCEPT !.refs = <<refs>>], ErrRefNotFound)

\* the return of listRemote with success, to its caller
afterListRemote(rec, ret) ==
    IF rec.op = "listRemote" THEN return(rec, ret) ELSE checkRef(rec, ret)

\* listRemote up to client.Do
listRemoteCall(rec) ==
    IF parseUrl(rec.repositoryUrl).ok THEN issue(rec, "refs")
    ELSE fail(rec, errParseUrl)

\* the names of the refs response without HEAD
RECURSIVE refNames(_)
refNames(Value) ==
    IF Len(Value) = 0 THEN <<>>
    ELSE (IF Head(Value).Name = refHEAD THEN <<>> ELSE <<Head(Value).Name>>)
             \o refNames(Tail(Value))

\* listRemote from the response up to the lock (or the return)
listRemoteResponse(rec, resp, enabled) ==
    LET r == [rec EXCEPT !.status = resp.status]
    IN  IF resp.status = 0 THEN fail(r, errHttpRequest)
        ELSE IF resp.status # StatusOK THEN fail(r, refsStatusError(resp.status))
        ELSE IF resp.body = <<>> THEN fail(r, errRefsDecode)
        ELSE IF shouldCache(enabled)
        THEN [r EXCEPT !.pc = "lrLock", !.ret = refNames(resp.body[1])]
        ELSE afterListRemote(r, refNames(resp.body[1]))

\* getRootItem from the response to its return, and on into its caller
getRootItemResponse(rec, resp) ==
    LET r == [rec EXCEPT !.status = resp.status]
    IN  IF resp.status = 0 THEN fail(r, errHttpRequest)
        ELSE IF resp.status # StatusOK THEN fail(r, rootItemStatusError(resp.status))
        ELSE IF resp.body = <<>> THEN fail(r, errItemsDecode)
        ELSE IF rootItemIncomplete(resp.body[1])
        THEN fail([r EXCEPT !.items = resp.body], errNoCommit)
        ELSE afterGetRootItem([r EXCEPT !.items = resp.body], resp.body[1][1])

\* listTree from the tree response up to the lock (or the return)
listTreeResponse(rec, resp, enabled) ==
    LET r == [rec EXCEPT !.status = resp.status]
    IN  IF resp.status = 0 THEN fail(r, errHttpRequest)
        ELSE IF resp.status # StatusOK THEN fail(r, treeStatusError(resp.status))
        ELSE IF resp.body = <<>> THEN fail(r, errTreeDecode)
        ELSE IF shouldCache(enabled)
        THEN [r EXCEPT !.pc = "ltLock", !.allPaths = resp.body[1]]
        ELSE return(r, filterPaths(resp.body[1], rec.extensions))

\* downloadZipFromAzureDevOps from the response on, then the rest of download
downloadResponse(rec, resp) ==
    LET r == [rec EXCEPT !.status = resp.status]
    IN  IF resp.status = 0 THEN fail(r, errHttpRequest)
        ELSE IF resp.status # StatusOK THEN fail(r, zipStatusError(resp.status))
        ELSE IF resp.body = <<>> THEN fail(r, errSaveZip)
        ELSE IF resp.body = <<"corrupt">>
        THEN fail([r EXCEPT !.zipFile = FALSE], errUnzip)
        ELSE return([r EXCEPT !.zipFile = FALSE], <<>>)

----------------------------------------------------------------------------
(* Unsynchronised reads.  listTree reads both maps without a.mu.  A read   *)
(* that overlaps another thread's assignment or delete on the same map is  *)
(* a data race: the runtime aborts ("concurrent map read and map write")   *)
(* or the read sees the map as it was before or as it is after the write.  *)

RefWriters(t) == {w \in Threads \ {t} : th[w].pc \in {"lrStore", "rcDelRef"}}

TreeWriters(t) == {w \in Threads \ {t} : th[w].pc \in {"ltStore", "rcDelTree"}}

RefAfterWrite(w) ==
    IF th[w].pc = "lrStore"
    THEN storeRefs(repoRefCache, th[w].repositoryUrl, th[w].ret)
    ELSE removeRefs(repoRefCache, th[w].repositoryUrl)

TreeAfterWrite(w) ==
    IF th[w].pc = "ltStore"
    THEN storeTree(repoTreeCache,
                   generateCacheKey(th[w].repositoryUrl, th[w].referenceName),
                   th[w].allPaths,
                   filterPaths(th[w].allPaths, th[w].extensions))
    ELSE removeTree(repoTreeCache, th[w].repositoryUrl, th[w].referenceName)

RefViews(t) == {repoRefCache} \cup {RefAfterWrite(w) : w \in RefWriters(t)}

TreeViews(t) == {repoTreeCache} \cup {TreeAfterWrite(w) : w \in TreeWriters(t)}

----------------------------------------------------------------------------
(* Calls *)

Init ==
    /\ cacheEnabled \in BOOLEAN
    /\ mu = "free"
    /\ repoRefCache = emptyMap
    /\ repoTreeCache = emptyMap
    /\ th = [t \in Threads |-> idleThread]
    /\ ver = 0
    /\ fetched = emptyMap
    /\ ncalls = 0

ListRemoteCall(t, url, creds) ==
    /\ th[t].pc \in {"idle", "done"}
    /\ ncalls < MaxCalls
    /\ ncalls' = ncalls + 1
    /\ th' = [th EXCEPT ![t] = listRemoteCall(
                 [idleThread EXCEPT !.op = "listRemote", !.repositoryUrl = url,
                                    !.username = creds.username,
                                    !.password = creds.password])]
    /\ UNCHANGED <<cacheEnabled, mu, repoRefCache, repoTreeCache, ver,
                   fetched>>

ListTreeCall(t, url, ref, exts, creds) ==
    /\ th[t].pc \in {"idle", "done"}
    /\ ncalls < MaxCalls
    /\ ncalls' = ncalls + 1
    /\ th' = [th EXCEPT ![t] =
                 [idleThread EXCEPT
                     !.pc = "readTree", !.op = "listTree",
                     !.repositoryUrl = url, !.referenceName = ref,
                     !.extensions = exts,
                     !.username = creds.username,
                     !.password = creds.password,
                     !.afterRemove =
                         /\ th[t].op = "removeCache"
                         /\ th[t].repositoryUrl = url
                         /\ th[t].referenceName = ref]]
    /\ UNCHANGED <<cacheEnabled, mu, repoRefCache, repoTreeCache, ver,
                   fetched>>

RemoveCacheCall(t, url, ref) ==
    /\ th[t].pc \in {"idle", "done"}
    /\ ncalls < MaxCalls
    /\ ncalls' = ncalls + 1
    /\ th' = [th EXCEPT ![t] =
                 [idleThread EXCEPT
                     !.pc = "rcLock", !.op = "removeCache",
                     !.repositoryUrl = url, !.referenceName = ref]]
    /\ UNCHANGED <<cacheEnabled, mu, repoRefCache, repoTreeCache, ver,
                   fetched>>

LatestCommitIDCall(t, url, ref, creds) ==
    /\ th[t].pc \in {"idle", "done"}
    /\ ncalls < MaxCalls
    /\ ncalls' = ncalls + 1
    /\ th' = [th EXCEPT ![t] = getRootItemCall(
                 [idleThread EXCEPT
                     !.op = "latestCommitID",
                     !.repositoryUrl = url, !.referenceName = ref,
                     !.username = creds.username,
                     !.password = creds.password])]
    /\ UNCHANGED <<cacheEnabled, mu, repoRefCache, repoTreeCache, ver,
                   fetched>>

\* download up to client.Do: parseUrl, ioutil.TempFile (which may fail)
DownloadCall(t, url, ref, creds) ==
    /\ th[t].pc \in {"idle", "done"}
    /\ ncalls < MaxCalls
    /\ ncalls' = ncalls + 1
    /\ LET rec == [idleThread EXCEPT
                       !.op = "download",
                       !.repositoryUrl = url, !.referenceName = ref,
                       !.username = creds.username,
                       !.password = creds.password]
       IN  IF ~parseUrl(url).ok
           THEN th' = [th EXCEPT ![t] = fail(rec, errParseUrl)]
           ELSE \E created \in BOOLEAN :
                   th' = [th EXCEPT ![t] =
                             IF created
                             THEN issue([rec EXCEPT !.zipFile = TRUE], "download")
                             ELSE fail(rec, errTempFile)]
    /\ UNCHANGED <<cacheEnabled, mu, repoRefCache, repoTreeCache, ver,
                   fetched>>

----------------------------------------------------------------------------
(* listRemote *)

RefsResponse(t, statuses) ==
    /\ th[t].pc = "refs"
    /\ \E resp \in RefsResponses(parseUrl(th[t].repositoryUrl), ver, statuses) :
           th' = [th EXCEPT ![t] = listRemoteResponse(th[t], resp, cacheEnabled)]
    /\ UNCHANGED <<cacheEnabled, mu, repoRefCache, repoTreeCache, ver,
                   fetched, ncalls>>

\* a.mu.Lock() of listRemote
LockRefCache(t) ==
    /\ th[t].pc = "lrLock"
    /\ mu = "free"
    /\ mu' = t
    /\ th' = [th EXCEPT ![t].pc = "lrStore"]
    /\ UNCHANGED <<cacheEnabled, repoRefCache, repoTreeCache, ver,
                   fetched, ncalls>>

\* the assignment and the return of listRemote, a.mu still locked
StoreRefCache_lockKept(t) ==
    /\ th[t].pc = "lrStore"
    /\ repoRefCache' = storeRefs(repoRefCache, th[t].repositoryUrl, th[t].ret)
    /\ th' = [th EXCEPT ![t] =
                 afterListRemote([th[t] EXCEPT !.wrote = @ \cup {"repoRefCache"}],
                                 th[t].ret)]
    /\ UNCHANGED <<cacheEnabled, mu, repoTreeCache, ver, fetched, ncalls>>

\* the assignment, the deferred Unlock and the return of listRemote
StoreRefCache(t) ==
    /\ th[t].pc = "lrStore"
    /\ repoRefCache' = storeRefs(repoRefCache, th[t].repositoryUrl, th[t].ret)
    /\ mu' = "free"
    /\ th' = [th EXCEPT ![t] =
                 afterListRemote([th[t] EXCEPT !.wrote = @ \cup {"repoRefCache"}],
                                 th[t].ret)]
    /\ UNCHANGED <<cacheEnabled, repoTreeCache, ver, fetched, ncalls>>

----------------------------------------------------------------------------
(* listTree *)

ReadTreeCache(t) ==
    /\ th[t].pc = "readTree"
    /\ \E m \in TreeViews(t) :
          LET repoKey == generateCacheKey(th[t].repositoryUrl, th[t].referenceName)
          IN  th' = [th EXCEPT ![t] =
                        IF repoKey \in DOMAIN m
                        THEN return(th[t], filterPaths(m[repoKey], th[t].extensions))
                        ELSE [th[t] EXCEPT !.pc = "readRef"]]
    /\ UNCHANGED <<cacheEnabled, mu, repoRefCache, repoTreeCache, ver,
                   fetched, ncalls>>

ReadRefCache(t) ==
    /\ th[t].pc = "readRef"
    /\ \E m \in RefViews(t) :
          th' = [th EXCEPT ![t] =
                    IF th[t].repositoryUrl \in DOMAIN m
                    THEN checkRef(th[t], m[th[t].repositoryUrl])
                    ELSE listRemoteCall(th[t])]
    /\ UNCHANGED <<cacheEnabled, mu, repoRefCache, repoTreeCache, ver,
                   fetched, ncalls>>

\* the runtime detects the concurrent map read and map write and aborts the
\* process: no thread takes another step
FatalMapAccess(t) ==
    /\ \/ th[t].pc = "readTree" /\ TreeWriters(t) # {}
       \/ th[t].pc = "readRef" /\ RefWriters(t) # {}
    /\ th' = [u \in Threads |-> [th[u] EXCEPT !.pc = "crashed"]]
    /\ UNCHANGED <<cacheEnabled, mu, repoRefCache, repoTreeCache, ver,
                   fetched, ncalls>>

RootItemResponse(t, statuses) ==
    /\ th[t].pc = "rootItem"
    /\ \E resp \in RootItemResponses(parseUrl(th[t].repositoryUrl),
                                     th[t].referenceName, ver, statuses) :
           th' = [th EXCEPT ![t] = getRootItemResponse(th[t], resp)]
    /\ UNCHANGED <<cacheEnabled, mu, repoRefCache, repoTreeCache, ver,
                   fetched, ncalls>>

TreeResponse(t, statuses) ==
    /\ th[t].pc = "tree"
    /\ \E resp \in TreeResponses(th[t].rootObject, statuses) :
           th' = [th EXCEPT ![t] = listTreeResponse(th[t], resp, cacheEnabled)]
    /\ UNCHANGED <<cacheEnabled, mu, repoRefCache, repoTreeCache, ver,
                   fetched, ncalls>>

\* a.mu.Lock() of listTree
LockTreeCache(t) ==
    /\ th[t].pc = "ltLock"
    /\ mu = "free"
    /\ mu' = t
    /\ th' = [th EXCEPT ![t].pc = "ltStore"]
    /\ UNCHANGED <<cacheEnabled, repoRefCache, repoTreeCache, ver,
                   fetched, ncalls>>

\* the assignment appending to the entry that is there
StoreTreeCache_merged(t) ==
    /\ th[t].pc = "ltStore"
    /\ LET repoKey == generateCacheKey(th[t].repositoryUrl, th[t].referenceName)
           filteredRet == filterPaths(th[t].allPaths, th[t].extensions)
           old == IF repoKey \in DOMAIN repoTreeCache
                  THEN repoTreeCache[repoKey] ELSE <<>>
       IN  /\ repoTreeCache' = storeTree(repoTreeCache, repoKey,
                                         old \o th[t].allPaths, filteredRet)
           /\ fetched' = mapSet(fetched, <<th[t].repositoryUrl, th[t].referenceName>>,
                                RemoteTree(th[t].rootObject))
           /\ th' = [th EXCEPT ![t] =
                        return([th[t] EXCEPT !.wrote = @ \cup {"repoTreeCache"}],
                               filteredRet)]
    /\ mu' = "free"
    /\ UNCHANGED <<cacheEnabled, repoRefCache, ver, ncalls>>

\* the assignment, the deferred Unlock and the return of listTree
StoreTreeCache(t) ==
    /\ th[t].pc = "ltStore"
    /\ LET repoKey == generateCacheKey(th[t].repositoryUrl, th[t].referenceName)
           filteredRet == filterPaths(th[t].allPaths, th[t].extensions)
       IN  /\ repoTreeCache' = storeTree(repoTreeCache, repoKey,
                                         th[t].allPaths, filteredRet)
           /\ fetched' = mapSet(fetched, <<th[t].repositoryUrl, th[t].referenceName>>,
                                RemoteTree(th[t].rootObject))
           /\ th' = [th EXCEPT ![t] =
                        return([th[t] EXCEPT !.wrote = @ \cup {"repoTreeCache"}],
                               filteredRet)]
    /\ mu' = "free"
    /\ UNCHANGED <<cacheEnabled, repoRefCache, ver, ncalls>>

----------------------------------------------------------------------------
(* removeCache *)

\* the cache map for which thread u has got a response that it waits to
\* store: the reference list of repositoryUrl, or the tree of
\* (repositoryUrl, referenceName)
HeldResponse(u, repositoryUrl, referenceName) ==
    IF th[u].pc = "lrLock" /\ th[u].repositoryUrl = repositoryUrl
    THEN "repoRefCache"
    ELSE IF /\ th[u].pc = "ltLock"
            /\ th[u].repositoryUrl = repositoryUrl
            /\ th[u].referenceName = referenceName
    THEN "repoTreeCache"
    ELSE "none"

\* a.mu.Lock()
RemoveCacheLock(t) ==
    /\ th[t].pc = "rcLock"
    /\ mu = "free"
    /\ mu' = t
    /\ th' = [th EXCEPT ![t].pc = "rcDelRef"]
    /\ UNCHANGED <<cacheEnabled, repoRefCache, repoTreeCache, ver,
                   fetched, ncalls>>

\* delete(a.repoRefCache, ...)
RemoveRefEntry(t) ==
    /\ th[t].pc = "rcDelRef"
    /\ repoRefCache' = removeRefs(repoRefCache, th[t].repositoryUrl)
    /\ th' = [th EXCEPT ![t].pc = "rcDelTree",
                        ![t].wrote = IF th[t].repositoryUrl \in DOMAIN repoRefCache
                                     THEN {"repoRefCache"} ELSE {}]
    /\ UNCHANGED <<cacheEnabled, mu, repoTreeCache, ver, fetched,
                   ncalls>>

\* delete(a.repoTreeCache, ...), the deferred Unlock and the return
RemoveTreeEntry(t) ==
    /\ th[t].pc = "rcDelTree"
    /\ repoTreeCache' = removeTree(repoTreeCache, th[t].repositoryUrl,
                                   th[t].referenceName)
    /\ fetched' = mapDelete(fetched, <<th[t].repositoryUrl, th[t].referenceName>>)
    /\ mu' = "free"
    /\ th' = [u \in Threads |->
                 IF u = t THEN return(th[t], <<>>)
                 ELSE IF HeldResponse(u, th[t].repositoryUrl,
                                      th[t].referenceName) # "none"
                 THEN [th[u] EXCEPT !.invalidated =
                          HeldResponse(u, th[t].repositoryUrl, th[t].referenceName)]
                 ELSE th[u]]
    /\ UNCHANGED <<cacheEnabled, repoRefCache, ver, ncalls>>

----------------------------------------------------------------------------
(* download, the remote *)

DownloadResponse(t, statuses) ==
    /\ th[t].pc = "download"
    /\ \E resp \in ZipResponses(statuses) :
           th' = [th EXCEPT ![t] = downloadResponse(th[t], resp)]
    /\ UNCHANGED <<cacheEnabled, mu, repoRefCache, repoTreeCache, ver,
                   fetched, ncalls>>

\* somebody pushes: the remote serves its next snapshot
RemoteChange ==
    /\ ver + 1 \in Versions
    /\ ver' = ver + 1
    /\ UNCHANGED <<cacheEnabled, mu, repoRefCache, repoTreeCache, th,
                   fetched, ncalls>>

----------------------------------------------------------------------------
(* Specifications *)

urlA == <<"https://", "dev.azure.com", "/", "org", "/", "proj", "/", "_git", "/", "repoA">>
urlB == <<"https://", "org", ".visualstudio.com", "/", "proj", "/", "_git", "/", "repoB">>
urlBad == <<"https://", "example.com", "/", "org", "/", "proj", "/", "_git", "/", "repoA">>

extNone == <<>>
extYml == << <<".yml">> >>

Step(t, statuses) ==
    \/ RefsResponse(t, statuses)
    \/ LockRefCache(t)
    \/ StoreRefCache(t)
    \/ ReadTreeCache(t)
    \/ ReadRefCache(t)
    \/ RootItemResponse(t, statuses)
    \/ TreeResponse(t, statuses)
    \/ LockTreeCache(t)
    \/ StoreTreeCache(t)
    \/ RemoveCacheLock(t)
    \/ RemoveRefEntry(t)
    \/ RemoveTreeEntry(t)
    \/ DownloadResponse(t, statuses)

\* a call of one of the three operations that use the cache
CacheCall(t, Urls, Refs, Exts, Creds) ==
    \E url \in Urls :
        \/ \E creds \in Creds : ListRemoteCall(t, url, creds)
        \/ \E ref \in Refs :
              \/ \E exts \in Exts, creds \in Creds :
                    ListTreeCall(t, url, ref, exts, creds)
              \/ RemoveCacheCall(t, url, ref)

\* a call of one of the two operations that do not
OtherCall(t, Urls, Refs, Creds) ==
    \E url \in Urls, ref \in Refs, creds \in Creds :
        \/ LatestCommitIDCall(t, url, ref, creds)
        \/ DownloadCall(t, url, ref, creds)

\* Concurrent callers, all working on one repository and one reference (the
\* tag, which the remote has in some snapshots only); the remote answers
\* with 200 (and a body that decodes or not), or not at all.
Next ==
    \/ \E t \in Threads :
          \/ CacheCall(t, {urlA}, {refTag}, {extNone, extYml}, {noCreds})
          \/ OtherCall(t, {urlA}, {refTag}, {noCreds})
          \/ Step(t, {StatusOK})
          \/ FatalMapAccess(t)
    \/ RemoteChange

Spec == Init /\ [][Next]_vars

\* One caller making one call at a time, of any of the five operations; the
\* two operations that leave the cache alone work on one reference.
NextSeq ==
    \/ CacheCall("t1", {urlA, urlB, urlBad}, {refMain, refTag}, {extNone, extYml},
                 {noCreds})
    \/ OtherCall("t1", {urlA, urlBad}, {refMain}, {noCreds})
    \/ Step("t1", Statuses)
    \/ RemoteChange

SpecSeq == Init /\ [][NextSeq]_vars

\* a URL with embedded credentials, and the call-scoped credentials
urlCred ==
    <<"https://", "bob", ":", "secret", "@", "dev.azure.com",
      "/", "org", "/", "proj", "/", "_git", "/", "repoA">>

CredInputs == [username : {<<>>, <<"alice">>}, password : {<<>>, <<"token">>}]

\* One caller, with and without call-scoped and embedded credentials; every
\* request is answered with 200.
NextAuth ==
    \/ CacheCall("t1", {urlA, urlCred}, {refMain}, {extNone}, CredInputs)
    \/ OtherCall("t1", {urlA, urlCred}, {refMain}, CredInputs)
    \/ Step("t1", {StatusOK})
    \/ RemoteChange

SpecAuth == Init /\ [][NextAuth]_vars

\* Inputs of parseUrl: a scheme and host (or the ssh user@host part), then up
\* to MaxSegments path segments, each after a "/".  A segment is one token or
\* empty.
Segments == {<<"a">>, <<"b">>, <<"c">>, <<"_git">>, <<>>}

RECURSIVE Path(_)
Path(segs) ==
    IF Len(segs) = 0 THEN <<>> ELSE <<"/">> \o Head(segs) \o Path(Tail(segs))

UrlHeads ==
    { scheme \o host :
        scheme \in {<<"https://">>, <<"http://">>, <<"ftp://">>},
        host \in {<<"dev.azure.com">>, <<"a", ".visualstudio.com">>,
                  <<"example.com">>} }
    \cup
    { scheme \o host :
        scheme \in {<<>>, <<"ssh://">>},
        host \in {<<"git@ssh", ".dev.azure.com", ":v3">>,
                  <<"git@ssh", ".dev.azure.com">>,
                  <<"example.com">>} }

RawUrls ==
    { head \o Path(segs) :
        head \in UrlHeads,
        segs \in UNION {[1..n -> Segments] : n \in 0..MaxSegments} }

\* Inputs of formatReferenceName and getVersionType
NameTokens == {"refs/", "heads/", "tags/", "main", "v1"}

ReferenceNames == UNION {[1..n -> NameTokens] : n \in 0..MaxNameLen}

\* parseUrl applied to the thread's URL
ParseUrlApply(t) ==
    /\ th[t].pc = "parseUrl"
    /\ LET config == parseUrl(th[t].repositoryUrl)
       IN  th' = [th EXCEPT ![t] = IF config.ok THEN return(th[t], <<config>>)
                                   ELSE fail(th[t], errParseUrl)]
    /\ UNCHANGED <<cacheEnabled, mu, repoRefCache, repoTreeCache, ver,
                   fetched, ncalls>>

\* the two query parameters that describe the reference: version type and
\* version
ReferenceNameApply(t) ==
    /\ th[t].pc = "referenceName"
    /\ th' = [th EXCEPT ![t] =
                 return(th[t], <<getVersionType(th[t].referenceName),
                                 formatReferenceName(th[t].referenceName)>>)]
    /\ UNCHANGED <<cacheEnabled, mu, repoRefCache, repoTreeCache, ver,
                   fetched, ncalls>>

\* The pure functions, each applied to one input.
InitFn ==
    /\ cacheEnabled = FALSE
    /\ mu = "free"
    /\ repoRefCache = emptyMap
    /\ repoTreeCache = emptyMap
    /\ ver = 0
    /\ fetched = emptyMap
    /\ ncalls = 0
    /\ \/ \E rawUrl \in RawUrls :
             th = [t \in Threads |->
                     IF t = "t1"
                     THEN [idleThread EXCEPT !.pc = "parseUrl", !.op = "parseUrl",
                                             !.repositoryUrl = rawUrl]
                     ELSE idleThread]
       \/ \E name \in ReferenceNames :
             th = [t \in Threads |->
                     IF t = "t1"
                     THEN [idleThread EXCEPT !.pc = "referenceName",
                                             !.op = "referenceName",
                                             !.referenceName = name]
                     ELSE idleThread]

NextFn ==
    \/ ParseUrlApply("t1")
    \/ ReferenceNameApply("t1")

SpecFn == InitFn /\ [][NextFn]_vars

----------------------------------------------------------------------------
(* Properties *)

Key(t) == <<th[t].repositoryUrl, th[t].referenceName>>

Returned(t, op) == th[t].pc = "done" /\ th[t].op = op

\* C1: with the cache enabled, a listTree(repo, ref, ext2) that follows a
\* successful listTree(repo, ref, ext1) with no removeCache(repo, ref) in
\* between returns from its tree-cache read, having issued no remote call,
\* with exactly the paths of the first call's full tree that match ext2,
\* in order.
C1_SecondListTreeFromCache ==
    [][\A t \in Threads :
          (/\ cacheEnabled
           /\ th[t].pc = "readTree"
           /\ th'[t].pc # "readTree"
           /\ Key(t) \in DOMAIN fetched)
          => /\ th'[t].pc = "done"
             /\ th'[t].err = nil
             /\ th'[t].issued = <<>>
             /\ th'[t].val = filterPaths(fetched[Key(t)], th[t].extensions)]_vars

C1_Witness ==
    \E t \in Threads :
        /\ cacheEnabled
        /\ Returned(t, "listTree")
        /\ Key(t) \in DOMAIN fetched
        /\ th[t].issued = <<>>
        /\ th[t].extensions = extYml
        /\ th[t].val # <<>>
        /\ Len(th[t].val) < Len(fetched[Key(t)])

C3_Original ==
    [][\A t \in Threads :
          (/\ th[t].op = "listTree"
           /\ th[t].pc \in {"readTree", "readRef"}
           /\ parseUrl(th[t].repositoryUrl).ok
           /\ ~RemoteHasRef(parseUrl(th[t].repositoryUrl),
                            th[t].referenceName, ver))
          => /\ th'[t].pc # "rootItem"
             /\ ~(th'[t].pc = "done" /\ th'[t].err = nil)]_vars

\* C3 amended: a listTree call for a reference that is absent from the
\* reference list the call resolves (the cached list of the repository URL if
\* there is one, else the list of its own refs call) has returned
\* reference-not-found and has issued neither a root-item nor a tree call.
C3_AbsentFromResolvedRefs ==
    \A t \in Threads :
        (/\ th[t].op = "listTree"
         /\ th[t].refs # <<>>
         /\ ~\E i \in 1..Len(th[t].refs[1]) : th[t].refs[1][i] = th[t].referenceName)
        => /\ th[t].pc = "done"
           /\ th[t].err = ErrRefNotFound
           /\ \A i \in 1..Len(th[t].issued) : th[t].issued[i] = "refs"

C3_Witness ==
    \E t \in Threads :
        /\ Returned(t, "listTree")
        /\ th[t].refs # <<>>
        /\ th[t].refs[1][1] = refMain
        /\ th[t].referenceName = refTag
        /\ th[t].err = ErrRefNotFound

\* C4 as claimed: every read and every write of either cache map is made by
\* a thread that holds a.mu.
C4_Original ==
    [][\A t \in Threads :
          (/\ th[t].pc \in {"readTree", "readRef", "lrStore", "ltStore",
                            "rcDelRef", "rcDelTree"}
           /\ th'[t].pc # th[t].pc)
          => mu = t]_vars

\* removeCache of thread w has removed a reference-list entry and has not yet
\* removed the tree entry that is there
HalfRemoved(w) ==
    /\ th[w].pc = "rcDelTree"
    /\ "repoRefCache" \in th[w].wrote
    /\ generateCacheKey(th[w].repositoryUrl, th[w].referenceName)
           \in DOMAIN repoTreeCache

\* C5 as claimed: while a removeCache has removed the reference-list entry
\* and not yet the tree entry, no other thread sees that tree entry.
C5_Original ==
    [][\A t \in Threads : \A w \in Threads \ {t} :
          (/\ HalfRemoved(w)
           /\ th[t].pc = "readTree"
           /\ Key(t) = Key(w))
          => ~(th'[t].pc = "done" /\ th'[t].err = nil)]_vars

\* C6: with the cache disabled both maps stay empty, and every listTree call
\* that returns has made its remote calls itself: refs first, and all of
\* refs, root-item, tree when it succeeds.
C6_DisabledCacheTransparent ==
    ~cacheEnabled =>
        /\ repoRefCache = emptyMap
        /\ repoTreeCache = emptyMap
        /\ \A t \in Threads :
              (Returned(t, "listTree") /\ parseUrl(th[t].repositoryUrl).ok)
              => /\ th[t].issued # <<>>
                 /\ th[t].issued[1] = "refs"
                 /\ th[t].err = nil
                        => th[t].issued = <<"refs", "rootItem", "tree">>

C6_Witness ==
    /\ ~cacheEnabled
    /\ ncalls >= 2
    /\ \E t \in Threads :
          /\ Returned(t, "listTree")
          /\ th[t].err = nil
          /\ th[t].val # <<>>

\* C7 as claimed: when download has returned, the temporary file it created
\* no longer exists.
C7_Original ==
    \A t \in Threads : Returned(t, "download") => ~th[t].zipFile

\* C8 as claimed: a call whose remote call was answered with 401 returns
\* ErrAuthenticationFailure, whichever endpoint it was.
C8_Original ==
    \A t \in Threads :
        (th[t].pc = "done" /\ th[t].status = StatusUnauthorized)
        => th[t].err = ErrAuthenticationFailure

\* t has returned from listRemote, or from listTree with listRemote's error
ListRemoteReturned(t) ==
    \/ Returned(t, "listRemote")
    \/ /\ Returned(t, "listTree")
       /\ th[t].issued = <<"refs">>
       /\ th[t].refs = <<>>

\* C9: listRemote maps the status of the refs response to its error: 404 to
\* ErrIncorrectRepositoryURL, 401 and 203 to ErrAuthenticationFailure, any
\* other status but 200 to the generic error with that status; with any of
\* these, and with a transport or decode failure, the call has changed
\* neither cache map.
C9_ListRemoteErrors ==
    \A t \in Threads :
        (ListRemoteReturned(t) /\ th[t].issued = <<"refs">>)
        => /\ th[t].status = StatusNotFound
                  => th[t].err = ErrIncorrectRepositoryURL
           /\ th[t].status \in {StatusUnauthorized, StatusNonAuthoritativeInfo}
                  => th[t].err = ErrAuthenticationFailure
           /\ th[t].status \notin {0, StatusOK, StatusNotFound,
                                   StatusUnauthorized, StatusNonAuthoritativeInfo}
                  => th[t].err = <<"failed to list refs url with a status",
                                   th[t].status>>
           /\ th[t].status = 0 => th[t].err = errHttpRequest
           /\ th[t].status # StatusOK => th[t].err # nil
           /\ th[t].err # nil => th[t].wrote = {}

C9_Witness ==
    \E t \in Threads :
        /\ Returned(t, "listRemote")
        /\ th[t].status = StatusNonAuthoritativeInfo
        /\ th[t].err = ErrAuthenticationFailure
        /\ repoTreeCache # emptyMap

\* C10: when the decoded root-item response has an empty Value array, or a
\* first item with an empty commit id, the call has returned the
\* no-latest-commit error and no value (latestCommitID: no commit id), and
\* listTree has issued no tree call and has not written the tree cache.
C10_IncompleteRootItem ==
    \A t \in Threads :
        (/\ th[t].items # <<>>
         /\ \/ Len(th[t].items[1]) = 0
            \/ th[t].items[1][1].CommitId = <<>>)
        => /\ th[t].pc = "done"
           /\ th[t].err = errNoCommit
           /\ th[t].val = <<>>
           /\ \A i \in 1..Len(th[t].issued) : th[t].issued[i] # "tree"
           /\ "repoTreeCache" \notin th[t].wrote

C10_Witness ==
    \E t \in Threads :
        /\ Returned(t, "listTree")
        /\ th[t].items # <<>>
        /\ Len(th[t].items[1]) = 1
        /\ th[t].items[1][1].CommitId = <<>>
        /\ th[t].issued = <<"refs", "rootItem">>

\* C11 as claimed: a listRemote or listTree call that has returned an error
\* has changed neither cache map.
C11_Original ==
    \A t \in Threads :
        (/\ th[t].pc = "done"
         /\ th[t].op \in {"listRemote", "listTree"}
         /\ th[t].err # nil)
        => th[t].wrote = {}

\* the remote calls that a call of op may have issued so far
AllowedIssued(op) ==
    CASE op = "listRemote" -> {<<>>, <<"refs">>}
      [] op = "latestCommitID" -> {<<>>, <<"rootItem">>}
      [] op = "download" -> {<<>>, <<"download">>}
      [] op = "listTree" -> {<<>>, <<"refs">>, <<"refs", "rootItem">>,
                             <<"refs", "rootItem", "tree">>,
                             <<"rootItem">>, <<"rootItem", "tree">>}
      [] OTHER -> {<<>>}

\* C12: no call repeats a remote call.  listRemote, latestCommitID and
\* download issue at most one; listTree issues refs, root-item, tree in that
\* order, each at most once.  A listTree that returns from its tree-cache
\* read has issued none; one that finds the reference list in the cache
\* goes on without a refs call, and issues exactly root-item and tree when
\* it succeeds; one that succeeds after missing both caches has issued all
\* three.
C12_NoRetryFixedOrder ==
    /\ [](\A t \in Threads :
            /\ th[t].issued \in AllowedIssued(th[t].op)
            /\ (Returned(t, "listTree") /\ th[t].err = nil /\ th[t].refs # <<>>)
                   => th[t].issued \in {<<"refs", "rootItem", "tree">>,
                                        <<"rootItem", "tree">>})
    /\ [][\A t \in Threads :
            /\ (th[t].pc = "readTree" /\ th'[t].pc = "done")
                   => th'[t].issued = <<>>
            /\ (/\ th[t].pc = "readRef"
                /\ th'[t].pc # "readRef"
                /\ th[t].repositoryUrl \in DOMAIN repoRefCache)
                   => /\ th'[t].issued \in {<<>>, <<"rootItem">>}
                      /\ th'[t].pc \in {"rootItem", "done"}
            /\ (/\ th[t].pc = "readRef"
                /\ th'[t].pc # "readRef"
                /\ th[t].repositoryUrl \notin DOMAIN repoRefCache
                /\ parseUrl(th[t].repositoryUrl).ok)
                   => th'[t].issued = <<"refs">> /\ th'[t].pc = "refs"]_vars

C12_Witness ==
    \E t \in Threads :
        /\ Returned(t, "listTree")
        /\ th[t].err = nil
        /\ th[t].issued = <<"rootItem", "tree">>
        /\ th[t].repositoryUrl \in DOMAIN repoRefCache

InFlight == {"refs", "rootItem", "tree", "download"}

\* C13: a thread that has a remote call in flight does not hold a.mu; the
\* holder of a.mu is at one of the map assignments or deletes.
C13_LockNotHeldAcrossNetwork ==
    \A t \in Threads :
        /\ th[t].pc \in InFlight => mu # t
        /\ mu = t => th[t].pc \in {"lrStore", "ltStore", "rcDelRef", "rcDelTree",
                                   "crashed"}

\* one thread has got a.mu while another has a remote call in flight
C13_Witness ==
    \E t \in Threads : \E w \in Threads \ {t} :
        /\ th[t].pc \in InFlight
        /\ th[t].op = "listTree"
        /\ th[t].wrote = {"repoRefCache"}
        /\ mu = w
        /\ th[w].pc = "ltStore"

\* C14: every request of every call carries the call-scoped username and
\* password when either is non-empty; else the username and password
\* embedded in the repository URL when either is non-empty; else no basic
\* authentication.
C14_AuthPrecedence ==
    \A t \in Threads :
        /\ Len(th[t].auth) = Len(th[t].issued)
        /\ \A i \in 1..Len(th[t].auth) :
              LET u == UrlParse(th[t].repositoryUrl)
                  scoped == th[t].username # <<>> \/ th[t].password # <<>>
                  embedded == u.Username # <<>> \/ u.Password # <<>>
              IN  /\ scoped => th[t].auth[i] = <<[username |-> th[t].username,
                                                  password |-> th[t].password]>>
                  /\ (~scoped /\ embedded)
                         => th[t].auth[i] = <<[username |-> u.Username,
                                              password |-> u.Password]>>
                  /\ (~scoped /\ ~embedded) => th[t].auth[i] = <<>>

\* a listTree on a URL with embedded credentials, called with a password
\* only, has made its three requests with the call-scoped pair
C14_Witness ==
    \E t \in Threads :
        /\ Returned(t, "listTree")
        /\ th[t].repositoryUrl = urlCred
        /\ th[t].username = <<>>
        /\ th[t].password = <<"token">>
        /\ th[t].issued = <<"refs", "rootItem", "tree">>
        /\ \A i \in 1..3 :
              th[t].auth[i] = <<[username |-> <<>>, password |-> <<"token">>]>>

\* the part of a URL before its first "/", and its path segments
UrlHead(rawUrl) == Head(Split(rawUrl, "/"))

UrlSegments(rawUrl) == Tail(Split(rawUrl, "/"))

sshHead == <<"git@ssh", ".dev.azure.com", ":v3">>

\* the locator of a URL of one of the four supported shapes, <<>> for any
\* other URL
ExpectedLocator(rawUrl) ==
    LET head == UrlHead(rawUrl)
        segs == UrlSegments(rawUrl)
        filled(n) == Len(segs) = n /\ \A i \in 1..n : segs[i] # <<>>
    IN  IF head = <<"https://", "dev.azure.com">> /\ filled(4)
               /\ segs[3] = <<"_git">>
        THEN <<[organisation |-> segs[1], project |-> segs[2],
                repository |-> segs[4]]>>
        ELSE IF head = <<"https://", "a", ".visualstudio.com">> /\ filled(3)
               /\ segs[2] = <<"_git">>
        THEN <<[organisation |-> <<"a">>, project |-> segs[1],
                repository |-> segs[3]]>>
        ELSE IF head \in {sshHead, <<"ssh://">> \o sshHead} /\ filled(3)
        THEN <<[organisation |-> segs[1], project |-> segs[2],
                repository |-> segs[3]]>>
        ELSE <<>>

\* C15 as claimed: parseUrl accepts a URL exactly if it has one of the four
\* supported shapes, and then organisation, project and repository are the
\* segments at the expected positions; for every other URL it returns an
\* error and no locator.
C15_Original ==
    \A t \in Threads :
        Returned(t, "parseUrl")
        => IF ExpectedLocator(th[t].repositoryUrl) # <<>>
           THEN /\ th[t].err = nil
                /\ LET want == ExpectedLocator(th[t].repositoryUrl)[1]
                       got == th[t].val[1]
                   IN  /\ got.organisation = want.organisation
                       /\ got.project = want.project
                       /\ got.repository = want.repository
           ELSE th[t].err # nil /\ th[t].val = <<>>

\* C16: for a name that starts with refs/heads/ the version type is branch
\* and the version is the name after that prefix; starting with refs/tags/,
\* tag and the name after that prefix; for any other name, commit and the
\* name itself.
C16_ReferenceNames ==
    \A t \in Threads :
        Returned(t, "referenceName")
        => LET n == th[t].referenceName
               starts(second) ==
                   Len(n) >= 2 /\ n[1] = "refs/" /\ n[2] = second
               rest == [i \in 1..(Len(n) - 2) |-> n[i + 2]]
           IN  /\ starts("heads/") => th[t].val = <<"branch", rest>>
               /\ starts("tags/") => th[t].val = <<"tag", rest>>
               /\ (~starts("heads/") /\ ~starts("tags/"))
                      => th[t].val = <<"commit", n>>

C16_Witness ==
    \E t \in Threads :
        /\ Returned(t, "referenceName")
        /\ th[t].referenceName = <<"refs/", "tags/", "v1">>
        /\ th[t].val = <<"tag", <<"v1">>>>

\* the names of snapshot v's refs response for a repository URL, in response
\* order, without the entries named HEAD
HeadFreeNames(repositoryUrl, v) ==
    LET Value == RemoteRefs(parseUrl(repositoryUrl), v)
        names == [i \in 1..Len(Value) |-> Value[i].Name]
    IN  SelectSeq(names, LAMBDA n : n # refHEAD)

\* C17: a listRemote that has returned a list has returned the HEAD-free
\* names of one refs response of its repository, in order, and with the
\* cache enabled that list is the reference-list cache entry of its URL;
\* every reference-list cache entry is the whole HEAD-free list of one refs
\* response of the repository of its key.
C17_RefCacheEntries ==
    /\ \A t \in Threads :
          (Returned(t, "listRemote") /\ th[t].err = nil)
          => /\ \E v \in Versions :
                   th[t].val = HeadFreeNames(th[t].repositoryUrl, v)
             /\ cacheEnabled
                   => /\ th[t].repositoryUrl \in DOMAIN repoRefCache
                      /\ repoRefCache[th[t].repositoryUrl] = th[t].val
    /\ \A url \in DOMAIN repoRefCache :
          \E v \in Versions : repoRefCache[url] = HeadFreeNames(url, v)

\* listRemote has replaced the cached list of one repository by a shorter
\* one while the list of another repository is cached too
C17_Witness ==
    \E t \in Threads :
        /\ Returned(t, "listRemote")
        /\ th[t].err = nil
        /\ th[t].repositoryUrl = urlA
        /\ urlB \in DOMAIN repoRefCache
        /\ repoRefCache[urlA] = HeadFreeNames(urlA, 1)
        /\ repoRefCache[urlB] = HeadFreeNames(urlB, 0)
        /\ repoRefCache[urlB] # HeadFreeNames(urlA, 0)

\* the full tree of reference referenceName of the repository at
\* repositoryUrl in snapshot v
TreeOf(repositoryUrl, referenceName, v) ==
    RemoteTree(RemoteRootObject(parseUrl(repositoryUrl), referenceName, v))

\* C18: a listTree call addresses its tree call by the object id of the
\* first item of its own root-item response, which is the root object of
\* its (repository, reference) in some snapshot, and the list it is about
\* to store is the full tree of that object; every tree cache entry is the
\* full tree of the (repository, reference) of its key in some snapshot.
C18_TreeOfSameReference ==
    /\ \A t \in Threads :
          th[t].pc \in {"tree", "ltLock", "ltStore"}
          => /\ th[t].items # <<>>
             /\ th[t].rootObject = th[t].items[1][1].ObjectID
             /\ \E v \in Versions :
                   th[t].rootObject =
                       RemoteRootObject(parseUrl(th[t].repositoryUrl),
                                        th[t].referenceName, v)
             /\ th[t].pc # "tree" => th[t].allPaths = RemoteTree(th[t].rootObject)
    /\ \A key \in DOMAIN repoTreeCache :
          \E v \in Versions : repoTreeCache[key] = TreeOf(key[1], key[2], v)

\* the trees of two references of two repositories are cached, and differ
C18_Witness ==
    /\ generateCacheKey(urlA, refMain) \in DOMAIN repoTreeCache
    /\ generateCacheKey(urlB, refTag) \in DOMAIN repoTreeCache
    /\ repoTreeCache[generateCacheKey(urlA, refMain)]
           # repoTreeCache[generateCacheKey(urlB, refTag)]
    /\ \E t \in Threads : Returned(t, "listTree") /\ th[t].wrote = {"repoTreeCache"}

\* C19: with the cache enabled and the remote still serving its first
\* snapshot, when two threads have both returned paths from listTree calls
\* for the same (repository, reference), each has returned the full tree of
\* that reference filtered by its own extensions (the same list for the
\* same extensions), and the tree cache entry of the key is that full tree.
C19_ConcurrentSameKey ==
    \A t \in Threads : \A w \in Threads \ {t} :
        (/\ cacheEnabled
         /\ ver = 0
         /\ Returned(t, "listTree") /\ th[t].err = nil
         /\ Returned(w, "listTree") /\ th[w].err = nil
         /\ Key(t) = Key(w))
        => LET full == TreeOf(th[t].repositoryUrl, th[t].referenceName, 0)
               matching(exts) ==
                   SelectSeq(full, LAMBDA path :
                       \/ exts = <<>>
                       \/ \E i \in 1..Len(exts) :
                             /\ Len(path) >= Len(exts[i])
                             /\ SubSeq(path, Len(path) - Len(exts[i]) + 1,
                                       Len(path)) = exts[i])
           IN  /\ th[t].val = matching(th[t].extensions)
               /\ th[w].val = matching(th[w].extensions)
               /\ th[t].extensions = th[w].extensions => th[t].val = th[w].val
               /\ generateCacheKey(th[t].repositoryUrl, th[t].referenceName)
                      \in DOMAIN repoTreeCache
               /\ repoTreeCache[generateCacheKey(th[t].repositoryUrl,
                                                 th[t].referenceName)] = full

\* the only two calls made are two listTree calls for one key; both missed
\* the cache, made their own three remote calls and stored the tree
C19_Witness ==
    /\ cacheEnabled
    /\ ver = 0
    /\ ncalls = 2
    /\ \A t \in Threads :
          /\ Returned(t, "listTree")
          /\ th[t].err = nil
          /\ th[t].issued = <<"refs", "rootItem", "tree">>
          /\ "repoTreeCache" \in th[t].wrote
    /\ th["t1"].extensions = extYml
    /\ th["t2"].extensions = extNone

\* C20 as claimed: a call that was holding a remote response when a
\* removeCache of its repository (and reference) completed does not store
\* that response in the cache afterwards.
C20_Original ==
    [][\A t \in Threads :
          /\ (th[t].pc = "ltStore" /\ th[t].invalidated = "repoTreeCache")
                 => repoTreeCache' = repoTreeCache
          /\ (th[t].pc = "lrStore" /\ th[t].invalidated = "repoRefCache")
                 => repoRefCache' = repoRefCache]_vars

\* map m without key: every other key is present with its value
Without(m, after, key) ==
    /\ DOMAIN after = DOMAIN m \ {key}
    /\ \A k \in DOMAIN after : after[k] = m[k]

\* C21: of a removeCache(repo, ref) call, taking the lock changes neither
\* map; the first delete takes the entry of repo out of the reference-list
\* map, leaves every other entry of it as it is and leaves the tree map
\* unchanged; the second delete takes the entry of (repo, ref) out of the
\* tree map, leaves every other entry of it (those of the other references
\* of repo too) as it is and leaves the reference-list map unchanged.  A
\* delete of a key that is not there changes nothing.
C21_RemoveCacheFrame ==
    [][\A t \in Threads :
          (th[t].op = "removeCache" /\ th'[t] # th[t])
          => LET url == th[t].repositoryUrl
                 repoKey == generateCacheKey(url, th[t].referenceName)
             IN  /\ th[t].pc = "rcLock"
                        => /\ repoRefCache' = repoRefCache
                           /\ repoTreeCache' = repoTreeCache
                 /\ th[t].pc = "rcDelRef"
                        => /\ Without(repoRefCache, repoRefCache', url)
                           /\ repoTreeCache' = repoTreeCache
                           /\ url \notin DOMAIN repoRefCache
                                  => repoRefCache' = repoRefCache
                 /\ th[t].pc = "rcDelTree"
                        => /\ Without(repoTreeCache, repoTreeCache', repoKey)
                           /\ repoRefCache' = repoRefCache
                           /\ repoKey \notin DOMAIN repoTreeCache
                                  => repoTreeCache' = repoTreeCache]_vars

\* removeCache(repoA, tag) has removed the reference list of repoA; the
\* list of repoB and the tree of (repoA, main) are still cached
C21_Witness ==
    \E t \in Threads :
        /\ Returned(t, "removeCache")
        /\ th[t].repositoryUrl = urlA
        /\ th[t].referenceName = refTag
        /\ th[t].wrote = {"repoRefCache"}
        /\ urlA \notin DOMAIN repoRefCache
        /\ urlB \in DOMAIN repoRefCache
        /\ generateCacheKey(urlA, refMain) \in DOMAIN repoTreeCache

InCall(t) == th[t].pc \notin {"idle", "done"}

LockWait == {"lrLock", "ltLock", "rcLock"}

\* the runtime has aborted the process under the call of thread t
Halted(t) == th[t].pc = "crashed"

\* thread t is in a.mu.Lock() and a.mu is taken
Blocked(t) == th[t].pc \in LockWait /\ mu # "free"

\* thread t can take the next step of its call once its remote call is
\* answered, or it waits for a.mu and the thread that holds a.mu can take
\* its next step
CanProceed(t) ==
    /\ ~Halted(t)
    /\ Blocked(t) => /\ mu \in Threads \ {t}
                     /\ ~Halted(mu)
                     /\ ~Blocked(mu)

\* a thread that is not in a call, or has a remote call in flight, or waits
\* for a.mu, does not hold a.mu
LockDiscipline ==
    \A t \in Threads :
        (~InCall(t) \/ th[t].pc \in InFlight \cup LockWait) => mu # t

\* C22 as claimed: a.mu is released before the operation that took it
\* returns, no thread waits for a.mu while holding it, and no call is ever
\* stuck: a thread in a call can always proceed (every call being a finite
\* sequence of steps, it then returns under a fair scheduler).
C22_Original ==
    /\ LockDiscipline
    /\ \A t \in Threads : InCall(t) => CanProceed(t)

\* what holds of the calls: the lock discipline, and a call is stuck only
\* when the runtime has aborted the process on an unsynchronised map read
\* of listTree
ProceedsOrAborted ==
    /\ LockDiscipline
    /\ \A t \in Threads : InCall(t) => (CanProceed(t) \/ Halted(t))

====
